---------------------------- MODULE Spec2Model ----------------------------
(***************************************************************************)
(* Verification model of the voice-assistant front end:                    *)
(*   - the dashboard client (connectToLiveAPI, handleLiveMessage, the nav  *)
(*     assist race, the audio assembler and the playback queue), and       *)
(*   - the stand-alone live-chat page (frontend/live-chat.js).             *)
(* Every browser task (a channel message, a timer, a click, a media        *)
(* callback, a fetch continuation) is one atomic action: JavaScript runs   *)
(* each task to completion on one event loop.                              *)
(***************************************************************************)
EXTENDS Integers, Sequences, FiniteSets, TLC

(***************************************************************************)
(* Bounds of the model (not program constants).                            *)
(***************************************************************************)
\* audio fragments buffered at one time, and clips (object URLs) created in
\* one run, under the specifications that examine assembly and playback
MaxChunks == 2
MaxClips == 3
\* the same under the specifications that examine the arbitration of a turn
TurnChunks == 1
TurnClips == 1
\* startRecording calls suspended at the microphone request at one time
MaxStarts == 1
\* the same under the specification that examines two starts racing for the
\* microphone, and the capture sessions running at one time
RaceStarts == 2
MaxSessions == 2
\* assist lookups in flight at one time
MaxLookups == 1
\* utterances whose end event is tracked
MaxPending == 1
\* bytes in one decoded fragment handed to the container writer
MaxFragLen == 2

NULL == "null"

(***************************************************************************)
(* Numbers wider than TLC's integers: a non-negative JavaScript number as  *)
(* three limbs, value = w2 * 2^32 + w1 * 2^16 + w0, so that DataView's     *)
(* 32-bit truncation is modelled and not assumed away.                     *)
(***************************************************************************)
Limb == 256 * 256

Num(w2, w1, w0) == [w2 |-> w2, w1 |-> w1, w0 |-> w0]

NumOf(n) == Num(0, n \div Limb, n % Limb)

NumIsZero(x) == x.w2 = 0 /\ x.w1 = 0 /\ x.w0 = 0

\* a product that forgets its factor: a fault the header's byte rate must
\* notice
NumMul_forgetful(x, k) == x

\* x + k and x * k for a small k
NumAdd(x, k) ==
    LET s0 == x.w0 + k
        s1 == x.w1 + (s0 \div Limb)
    IN  Num(x.w2 + (s1 \div Limb), s1 % Limb, s0 % Limb)

NumMul(x, k) ==
    LET p0 == x.w0 * k
        p1 == x.w1 * k + (p0 \div Limb)
    IN  Num(x.w2 * k + (p1 \div Limb), p1 % Limb, p0 % Limb)

(***************************************************************************)
(* DataView / typed arrays.  A byte buffer is a sequence of 0..255; the    *)
(* byte at JavaScript offset k is element k + 1.                           *)
(***************************************************************************)
ArrayBuffer(n) == [i \in 1..n |-> 0]

setUint8(view, offset, b) == [view EXCEPT ![offset + 1] = b % 256]

\* setUint32 called without its littleEndian flag: a fault a reader of the
\* container must notice
setUint32_bigEndian(view, offset, x) ==
    [view EXCEPT ![offset + 1] = x.w1 \div 256,
                 ![offset + 2] = x.w1 % 256,
                 ![offset + 3] = x.w0 \div 256,
                 ![offset + 4] = x.w0 % 256]

\* DataView.setUint32(offset, value, true): ToUint32(value), little-endian
setUint32(view, offset, x) ==
    [view EXCEPT ![offset + 1] = x.w0 % 256,
                 ![offset + 2] = x.w0 \div 256,
                 ![offset + 3] = x.w1 % 256,
                 ![offset + 4] = x.w1 \div 256]

\* DataView.setUint16(offset, value, true): ToUint16(value), little-endian
setUint16(view, offset, x) ==
    [view EXCEPT ![offset + 1] = x.w0 % 256,
                 ![offset + 2] = x.w0 \div 256]

\* the character codes of the four chunk identifiers
StrRIFF == <<82, 73, 70, 70>>
StrWAVE == <<87, 65, 86, 69>>
StrFmt  == <<102, 109, 116, 32>>
StrData == <<100, 97, 116, 97>>

RECURSIVE writeStringFrom(_, _, _, _)
writeStringFrom(view, offset, string, i) ==
    IF i > Len(string) THEN view
    ELSE writeStringFrom(setUint8(view, offset + i - 1, string[i]), offset, string, i + 1)

writeString(view, offset, string) == writeStringFrom(view, offset, string, 1)

RECURSIVE concatFrom(_, _, _)
concatFrom(chunks, i, result) ==
    IF i > Len(chunks) THEN result
    ELSE concatFrom(chunks, i + 1, result \o chunks[i])

concatUint8Arrays(chunks) == concatFrom(chunks, 1, <<>>)

createWavBlob(pcmBytes, sampleRate) ==
    LET numChannels   == 1
        bitsPerSample == 16
        blockAlign    == (numChannels * bitsPerSample) \div 8
        byteRate      == NumMul(sampleRate, blockAlign)
        dataSize      == NumOf(Len(pcmBytes))
        v0  == ArrayBuffer(44)
        v1  == writeString(v0, 0, StrRIFF)
        v2  == setUint32(v1, 4, NumAdd(dataSize, 36))
        v3  == writeString(v2, 8, StrWAVE)
        v4  == writeString(v3, 12, StrFmt)
        v5  == setUint32(v4, 16, NumOf(16))
        v6  == setUint16(v5, 20, NumOf(1))
        v7  == setUint16(v6, 22, NumOf(numChannels))
        v8  == setUint32(v7, 24, sampleRate)
        v9  == setUint32(v8, 28, byteRate)
        v10 == setUint16(v9, 32, NumOf(blockAlign))
        v11 == setUint16(v10, 34, NumOf(bitsPerSample))
        v12 == writeString(v11, 36, StrData)
        v13 == setUint32(v12, 40, dataSize)
    IN  v13 \o pcmBytes

(***************************************************************************)
(* atob and bufferAudioChunk's byte loop.  A base64 string is a sequence   *)
(* of sextets 0..63 with PAD for '='.                                      *)
(***************************************************************************)
PAD == 64

stripPad(b) ==
    IF Len(b) > 0 /\ Len(b) % 4 = 0 /\ b[Len(b)] = PAD
    THEN IF b[Len(b) - 1] = PAD THEN SubSeq(b, 1, Len(b) - 2)
                                ELSE SubSeq(b, 1, Len(b) - 1)
    ELSE b

\* atob throws InvalidCharacterError on these
atobThrows(b) ==
    LET d == stripPad(b)
    IN  Len(d) % 4 = 1 \/ \E i \in 1..Len(d) : d[i] = PAD

RECURSIVE atobFrom(_, _, _)
atobFrom(d, i, acc) ==
    LET rem == Len(d) - i + 1
    IN  IF rem <= 0 THEN acc
        ELSE IF rem >= 4 THEN
            LET n == ((d[i] * 64 + d[i + 1]) * 64 + d[i + 2]) * 64 + d[i + 3]
            IN  atobFrom(d, i + 4, acc \o <<n \div 65536, (n \div 256) % 256, n % 256>>)
        ELSE IF rem = 3 THEN
            LET n == ((d[i] * 64 + d[i + 1]) * 64 + d[i + 2]) \div 4
            IN  acc \o <<n \div 256, n % 256>>
        ELSE acc \o <<(d[i] * 64 + d[i + 1]) \div 16>>

atob(b) == atobFrom(stripPad(b), 1, <<>>)

(***************************************************************************)
(* MIME tags.  str = "" stands for null / undefined / "" (all falsy).      *)
(***************************************************************************)
Mime(str, hasRate, rate) == [str |-> str, hasRate |-> hasRate, rate |-> rate]

NoMime == Mime("", FALSE, NumOf(0))

\* the literal 'audio/pcm;rate=24000' of bufferAudioChunk
DefaultMime == Mime("audio/pcm;rate=24000", TRUE, NumOf(24000))

\* the 24000 of finalizeAudioResponse
DefaultRate == NumOf(24000)

\* /rate=(\d+)/ and parseInt; NumOf(0) stands for null (both are falsy)
getSampleRateFromMime(mimeType) ==
    IF mimeType.str = "" THEN NumOf(0)
    ELSE IF mimeType.hasRate THEN mimeType.rate ELSE NumOf(0)

(***************************************************************************)
(* Text contents.  A content is described by what isNavigationPayload      *)
(* looks at: the trimmed text's first and last character, whether          *)
(* JSON.parse accepts it, and whether the parsed object has a string       *)
(* page / destination.                                                     *)
(***************************************************************************)
Content(str, open, close, parses, page, destination) ==
    [str |-> str, open |-> open, close |-> close, parses |-> parses,
     page |-> page, destination |-> destination]

Truthy(str) == str # NULL /\ str # ""

\* the test without JSON.parse: a fault the surfacing of malformed content
\* must notice
isNavigationPayload_unparsed(text) ==
    Truthy(text.str) /\ text.open /\ text.close

isNavigationPayload(text) ==
    IF ~Truthy(text.str) THEN FALSE
    ELSE IF ~(text.open /\ text.close) THEN FALSE
    ELSE IF ~text.parses THEN FALSE
    ELSE text.page \/ text.destination

(***************************************************************************)
(* Inputs the environment draws from.                                      *)
(***************************************************************************)
TxtHello   == Content("hello", FALSE, FALSE, FALSE, FALSE, FALSE)
TxtNavJson == Content("{\"page\":\"players\"}", TRUE, TRUE, TRUE, TRUE, FALSE)
TxtBadJson == Content("{page: players}", TRUE, TRUE, FALSE, FALSE, FALSE)

TextContents == {TxtHello, TxtNavJson, TxtBadJson}

\* message of a navigate envelope ("" when absent) and of an assist response
NavMessages    == {"", "Opening players"}
AssistMessages == {"", "Done"}

\* "AQ==" (the byte 1), "AgM=" (the bytes 2 3), "" and the undecodable "A"
B64One   == <<0, 16, PAD, PAD>>
B64Two   == <<0, 32, 12, PAD>>
B64Empty == <<>>
B64Bad   == <<0>>

AudioPayloads == {B64One, B64Two, B64Empty, B64Bad}

Mime16k == Mime("audio/pcm;rate=16000", TRUE, NumOf(16000))
Mime48k == Mime("audio/pcm;rate=48000", TRUE, NumOf(48000))
MimePcm == Mime("audio/pcm", FALSE, NumOf(0))

MimeTags == {NoMime, Mime16k, MimePcm}

\* window.location.origin, scheme and the rest: a page opened from a file has
\* the origin "null"
HttpOrigin == [scheme |-> "http://", rest |-> "localhost:8000"]

Origins ==
    {HttpOrigin, [scheme |-> "https://", rest |-> "example.org"],
     [scheme |-> "", rest |-> "null"]}

WS_URL(origin) ==
    [origin EXCEPT !.scheme = CASE @ = "http://" -> "ws://"
                                [] @ = "https://" -> "wss://"
                                [] OTHER -> @]

LIVE_API_WS_URL(origin) == [WS_URL(origin) EXCEPT !.rest = <<@, "/ws/live-chat">>]

\* new WebSocket(url) throws a SyntaxError unless the URL is absolute with
\* the scheme ws or wss
WebSocketThrows(url) == url.scheme \notin {"ws://", "wss://"}

Modes == {"chat", "nav"}

(***************************************************************************)
(* State of the dashboard client (the module-level `let` variables) and    *)
(* of its environment: the channel, the audio elements, the requests in    *)
(* flight.                                                                 *)
(***************************************************************************)
VARIABLES
    ws,                       \* liveWebSocket.readyState
    reconnects,               \* pending setTimeout(connectToLiveAPI, 3000)
    status,                   \* text of the connection status label
    isRecording,
    activeRecordingMode,
    starts,                   \* startRecording calls suspended at getUserMedia
    mediaRecorder,            \* what became of the { processor, stream } it holds
    sessions,                 \* streams with live tracks and a connected processor
    navAwaitingResponse,
    navSuppressRealtime,
    awaitingRealtimeResponse,
    lastResponseText,
    navResponseTimeout,       \* TRUE while the fallback timer is pending
    pendingAudioChunks,
    pendingAudioMimeType,
    audioQueue,               \* object URLs, numbered in creation order
    isPlayingAudio,
    activeAudio,              \* URL of the element held in activeAudio, 0 = null
    hasShownAudioIndicator,
    clips,                    \* clips[u]: what became of URL u and its element
    lookups,                  \* assist fetches in flight
    utterances,               \* utterances whose onend / onerror is still due
    messageInput,             \* messageInput.value
    isProcessing,
    sendDisabled,             \* sendButton.disabled
    sessionId,
    queries,                  \* fetches of /api/ai-agent/query in flight
    turn,                     \* history of the current turn (observer)
    frags,                    \* fragments accepted in the current turn (observer)
    out,                      \* what the last task sent and assembled (observer)
    scope                     \* what is observed and what the environment may send:
                              \* fixed by the initial state of each specification

progVars == <<ws, reconnects, status, isRecording, activeRecordingMode, starts,
              mediaRecorder, sessions,
              navAwaitingResponse, navSuppressRealtime, awaitingRealtimeResponse,
              lastResponseText, navResponseTimeout, pendingAudioChunks,
              pendingAudioMimeType, audioQueue, isPlayingAudio, activeAudio,
              hasShownAudioIndicator, clips, lookups, utterances,
              messageInput, isProcessing, sendDisabled, sessionId, queries,
              turn, frags, out, scope>>

\* the state as one value, so that a function of the program is an operator on it
State ==
    [ws |-> ws, reconnects |-> reconnects, status |-> status,
     isRecording |-> isRecording, activeRecordingMode |-> activeRecordingMode,
     starts |-> starts, mediaRecorder |-> mediaRecorder, sessions |-> sessions,
     navAwaitingResponse |-> navAwaitingResponse,
     navSuppressRealtime |-> navSuppressRealtime,
     awaitingRealtimeResponse |-> awaitingRealtimeResponse,
     lastResponseText |-> lastResponseText,
     navResponseTimeout |-> navResponseTimeout,
     pendingAudioChunks |-> pendingAudioChunks,
     pendingAudioMimeType |-> pendingAudioMimeType,
     audioQueue |-> audioQueue, isPlayingAudio |-> isPlayingAudio,
     activeAudio |-> activeAudio,
     hasShownAudioIndicator |-> hasShownAudioIndicator,
     clips |-> clips, lookups |-> lookups, utterances |-> utterances,
     messageInput |-> messageInput, isProcessing |-> isProcessing,
     sendDisabled |-> sendDisabled, sessionId |-> sessionId, queries |-> queries,
     turn |-> turn, frags |-> frags, out |-> out, scope |-> scope]

Becomes(s) ==
    /\ ws' = s.ws
    /\ reconnects' = s.reconnects
    /\ status' = s.status
    /\ isRecording' = s.isRecording
    /\ activeRecordingMode' = s.activeRecordingMode
    /\ starts' = s.starts
    /\ mediaRecorder' = s.mediaRecorder
    /\ sessions' = s.sessions
    /\ navAwaitingResponse' = s.navAwaitingResponse
    /\ navSuppressRealtime' = s.navSuppressRealtime
    /\ awaitingRealtimeResponse' = s.awaitingRealtimeResponse
    /\ lastResponseText' = s.lastResponseText
    /\ navResponseTimeout' = s.navResponseTimeout
    /\ pendingAudioChunks' = s.pendingAudioChunks
    /\ pendingAudioMimeType' = s.pendingAudioMimeType
    /\ audioQueue' = s.audioQueue
    /\ isPlayingAudio' = s.isPlayingAudio
    /\ activeAudio' = s.activeAudio
    /\ hasShownAudioIndicator' = s.hasShownAudioIndicator
    /\ clips' = s.clips
    /\ lookups' = s.lookups
    /\ utterances' = s.utterances
    /\ messageInput' = s.messageInput
    /\ isProcessing' = s.isProcessing
    /\ sendDisabled' = s.sendDisabled
    /\ sessionId' = s.sessionId
    /\ queries' = s.queries
    /\ turn' = s.turn
    /\ frags' = s.frags
    /\ out' = s.out
    /\ scope' = s.scope

(***************************************************************************)
(* Observers.                                                              *)
(***************************************************************************)
NoTurn ==
    [phase |-> "none", nav |-> FALSE, synth |-> 0, enq |-> 0,
     autoShown |-> FALSE, assistShown |-> FALSE,
     handled |-> FALSE, handledAny |-> FALSE, answer |-> FALSE,
     text |-> FALSE, navText |-> FALSE, audio |-> FALSE, fired |-> FALSE,
     firedFirst |-> FALSE, preempted |-> FALSE, buffered |-> FALSE,
     restarted |-> FALSE, tag |-> NoMime, armed |-> NULL]

\* sent: envelopes transmitted; clip: the container assembled; taken: the
\* fragments of the turn it was assembled for; message, before: the envelope
\* handled and what the arbitrator held when it arrived; shown, spoken: texts
\* handed to addMessage and to speakTextResponse
Quiet ==
    [sent |-> <<>>, clip |-> <<>>, taken |-> <<>>,
     message |-> <<>>, before |-> <<>>, shown |-> <<>>, spoken |-> <<>>]

\* the state a task starts from: nothing sent or assembled yet by this task
Task == [State EXCEPT !.out = Quiet]

Watched(s, f) == f \in s.scope.watch

InTurn(s) == s.turn.phase = "open"

\* record v in field f of the open turn's history, if f is observed
Note(s, f, v) ==
    IF InTurn(s) /\ Watched(s, f) THEN [s EXCEPT !.turn[f] = v] ELSE s

Min(a, b) == IF a < b THEN a ELSE b

\* the task handles this envelope, starting from this state of the arbitrator
Observe(s, message) ==
    IF ~((Watched(s, "step") /\ message.type # "buffer")
         \/ (Watched(s, "chat") /\ message.type \in {"send", "query", "query_error"})
         \/ (Watched(s, "capture") /\ message.type = "buffer"))
    THEN s
    ELSE [s EXCEPT !.out.message = <<message>>,
                   !.out.before =
                       <<[navAwaitingResponse |-> s.navAwaitingResponse,
                          navSuppressRealtime |-> s.navSuppressRealtime,
                          awaitingRealtimeResponse |-> s.awaitingRealtimeResponse,
                          lastResponseText |-> s.lastResponseText,
                          navResponseTimeout |-> s.navResponseTimeout,
                          pendingAudioChunks |-> s.pendingAudioChunks,
                          audioQueue |-> s.audioQueue,
                          lookups |-> s.lookups,
                          messageInput |-> s.messageInput,
                          isProcessing |-> s.isProcessing,
                          sendDisabled |-> s.sendDisabled,
                          sessionId |-> s.sessionId,
                          queries |-> s.queries,
                          clips |-> Len(s.clips)]>>]

(***************************************************************************)
(* The functions of the dashboard client, as operators on the state.       *)
(***************************************************************************)
\* the label is written and never read by the program: it is tracked under
\* the specifications that observe it
updateConnectionStatus(s, text) ==
    IF Watched(s, "status") THEN [s EXCEPT !.status = text] ELSE s

\* origin: "auto" (a text / navigate envelope), "assist" (the lookup's
\* message), "user", "note"
addMessage(s, text, origin) ==
    LET t == IF Watched(s, "step") \/ (Watched(s, "chat") /\ s.out.message # <<>>)
             THEN [s EXCEPT !.out.shown = Append(@, text)] ELSE s
    IN  IF origin = "auto" THEN Note(t, "autoShown", TRUE)
        ELSE IF origin = "assist" THEN Note(t, "assistShown", TRUE)
        ELSE t

speakTextResponse(s, text) ==
    IF ~Truthy(text) THEN s
    ELSE LET t == [s EXCEPT !.utterances = Min(@ + 1, MaxPending),
                            !.out.spoken = IF Watched(s, "step") THEN Append(@, text)
                                           ELSE @]
         IN  Note(updateConnectionStatus(t, "Speaking..."),
                  "synth", Min(s.turn.synth + 1, 2))

\* a cancel that leaves the timer pending: a fault the state after
\* turn_complete must notice
clearNavSpeechFallback_forgets(s) == s

clearNavSpeechFallback(s) == [s EXCEPT !.navResponseTimeout = FALSE]

scheduleNavSpeechFallback(s) ==
    IF ~s.navAwaitingResponse \/ ~Truthy(s.lastResponseText) \/ s.navSuppressRealtime
    THEN s
    ELSE Note([clearNavSpeechFallback(s) EXCEPT !.navResponseTimeout = TRUE],
              "armed", s.lastResponseText)

\* the callback without its look at pendingAudioChunks: a fault the
\* preemption of the timer must notice
navSpeechFallbackFired_unguarded(s) ==
    IF s.navAwaitingResponse /\ Truthy(s.lastResponseText)
    THEN [speakTextResponse(s, s.lastResponseText)
             EXCEPT !.lastResponseText = NULL, !.navAwaitingResponse = FALSE]
    ELSE s

\* the callback scheduleNavSpeechFallback hands to setTimeout
navSpeechFallbackFired(s) ==
    IF s.navAwaitingResponse /\ Len(s.pendingAudioChunks) = 0
       /\ Truthy(s.lastResponseText)
    THEN [speakTextResponse(s, s.lastResponseText)
             EXCEPT !.lastResponseText = NULL, !.navAwaitingResponse = FALSE]
    ELSE s

resetNavAssistState(s) ==
    clearNavSpeechFallback([s EXCEPT !.navSuppressRealtime = FALSE])

\* resetAudioPlaybackState without audioQueue = []: a fault the pairing of
\* isPlayingAudio and the queue must notice
resetAudioPlaybackState_keepsQueue(s) ==
    [s EXCEPT !.pendingAudioChunks = <<>>,
              !.pendingAudioMimeType = NoMime,
              !.isPlayingAudio = FALSE,
              !.hasShownAudioIndicator = FALSE,
              !.activeAudio = 0]

\* a queued URL that is dropped is never played nor revoked; the element in
\* activeAudio is paused, its handlers stay attached
resetAudioPlaybackState(s) ==
    LET dropped == {s.audioQueue[i] : i \in 1..Len(s.audioQueue)}
        paused  == IF s.activeAudio # 0 /\ s.clips[s.activeAudio] = "playing"
                   THEN {s.activeAudio} ELSE {}
    IN  [s EXCEPT !.pendingAudioChunks = <<>>,
                  !.pendingAudioMimeType = NoMime,
                  !.audioQueue = <<>>,
                  !.isPlayingAudio = FALSE,
                  !.hasShownAudioIndicator = FALSE,
                  !.activeAudio = 0,
                  !.clips = [u \in DOMAIN s.clips |->
                                IF u \in dropped THEN "dropped"
                                ELSE IF u \in paused THEN "paused"
                                ELSE s.clips[u]]]

playNextAudio(s) ==
    IF Len(s.audioQueue) = 0
    THEN updateConnectionStatus([s EXCEPT !.isPlayingAudio = FALSE,
                                          !.hasShownAudioIndicator = FALSE,
                                          !.activeAudio = 0],
                                "Ready")
    ELSE LET audioUrl == Head(s.audioQueue)
         IN  [s EXCEPT !.isPlayingAudio = TRUE,
                       !.audioQueue = Tail(@),
                       !.clips[audioUrl] = "playing",
                       !.activeAudio = audioUrl]

\* audio.onended and audio.onerror of the element playing audioUrl
audioTerminated(s, audioUrl) ==
    playNextAudio([s EXCEPT !.clips[audioUrl] = "released",
                            !.activeAudio = IF @ = audioUrl THEN 0 ELSE @])

\* the catch of audio.play(): autoplay was refused, the element stays silent
\* and nothing plays it later
playRejected(s, audioUrl) ==
    addMessage([s EXCEPT !.clips[audioUrl] = "blocked"],
               "Click anywhere to enable audio playback.", "note")

bufferAudioChunk(s, base64Audio, mimeType) ==
    IF Len(base64Audio) = 0 THEN s
    ELSE IF atobThrows(base64Audio) THEN s
    ELSE LET bytes == atob(base64Audio)
         IN  IF Len(bytes) = 0 THEN s
             ELSE [s EXCEPT !.pendingAudioChunks = Append(@, bytes),
                            !.pendingAudioMimeType =
                                IF mimeType.str # "" THEN mimeType
                                ELSE IF @.str # "" THEN @
                                ELSE DefaultMime]

\* the buffer emptied with no clip made of it: a fault the answer at
\* turn_complete must notice
finalizeAudioResponse_dropsBuffer(s) ==
    [s EXCEPT !.pendingAudioChunks = <<>>, !.pendingAudioMimeType = NoMime]

finalizeAudioResponse(s) ==
    IF Len(s.pendingAudioChunks) = 0 THEN s
    ELSE LET pcmBytes   == concatUint8Arrays(s.pendingAudioChunks)
             tagged     == getSampleRateFromMime(s.pendingAudioMimeType)
             sampleRate == IF NumIsZero(tagged) THEN DefaultRate ELSE tagged
             wavBlob    == createWavBlob(pcmBytes, sampleRate)
             audioUrl   == Len(s.clips) + 1
             s1 == [s EXCEPT !.clips = Append(@, "queued"),
                             !.audioQueue = Append(@, audioUrl),
                             !.pendingAudioChunks = <<>>,
                             !.pendingAudioMimeType = NoMime,
                             !.out.clip = IF Watched(s, "clip") THEN wavBlob ELSE <<>>]
             s2 == Note(s1, "enq", Min(s.turn.enq + 1, 2))
             s3 == IF ~s2.hasShownAudioIndicator
                   THEN [addMessage(s2, "Playing audio response...", "note")
                            EXCEPT !.hasShownAudioIndicator = TRUE]
                   ELSE s2
         IN  IF ~s3.isPlayingAudio THEN playNextAudio(s3) ELSE s3

\* setNavResponding only toggles a CSS class of the nav microphone button
setNavResponding(s, isResponding) == s

\* navigateTo only touches the DOM and the location hash
navigateTo(s, page) == s

\* a lookup for every transcript, awaited or not: a fault the condition of
\* the assist race must notice
handleNavAssist_unasked(s, transcript) ==
    IF ~Truthy(transcript) THEN s
    ELSE [s EXCEPT !.lookups.cur = @ + 1]

\* handleNavAssist up to its await: the lookup is issued
handleNavAssist(s, transcript) ==
    IF ~s.navAwaitingResponse \/ ~Truthy(transcript) THEN s
    ELSE [s EXCEPT !.lookups.cur = @ + 1]

\* a response taken as handled whatever it declares: a fault the frame of an
\* unhandled response must notice
assistResponded_alwaysHandled(s, data, mine) ==
    LET s1 == IF Truthy(data.message)
              THEN [addMessage(s, data.message, "late")
                       EXCEPT !.lastResponseText = data.message]
              ELSE s
        s2 == clearNavSpeechFallback([s1 EXCEPT !.navSuppressRealtime = TRUE])
        s3 == IF Truthy(s2.lastResponseText)
              THEN speakTextResponse(s2, s2.lastResponseText)
              ELSE s2
    IN  [s3 EXCEPT !.lastResponseText = NULL,
                   !.navAwaitingResponse = FALSE,
                   !.awaitingRealtimeResponse = FALSE]

\* String.prototype.trim on the texts the input field is given
trim(str) ==
    CASE str = " " -> ""
      [] str = " hi " -> "hi"
      [] OTHER -> str

\* handleSendMessage without its look at isProcessing: a fault the guard of
\* the chat input must notice
handleSendMessage_unguarded(s) ==
    LET message == trim(s.messageInput)
    IN  IF message = "" THEN s
        ELSE [addMessage(s, message, "user")
                 EXCEPT !.messageInput = "",
                        !.isProcessing = TRUE,
                        !.sendDisabled = TRUE,
                        !.queries = @ + 1]

\* handleSendMessage up to its await of fetch
handleSendMessage(s) ==
    LET message == trim(s.messageInput)
    IN  IF message = "" \/ s.isProcessing THEN s
        ELSE [addMessage(s, message, "user")
                 EXCEPT !.messageInput = "",
                        !.isProcessing = TRUE,
                        !.sendDisabled = TRUE,
                        !.queries = @ + 1]

\* the finally of handleSendMessage
querySettled(s) ==
    [s EXCEPT !.isProcessing = FALSE, !.sendDisabled = FALSE]

\* the catch of handleSendMessage
queryCaught(s) ==
    addMessage(s, "Sorry, I encountered an error processing your request. Please try again.",
               "note")

\* a truthy target_route that is no string: .replace is no function of it
NotAString == "<number>"

\* handleSendMessage after its awaits, the status being OK and the body JSON
queryResponded(s, data) ==
    LET s1 == IF Truthy(data.session_id)
              THEN [s EXCEPT !.sessionId = data.session_id] ELSE s
        s2 == addMessage(s1, data.content, "bot")
    IN  querySettled(IF data.target_route = NotAString THEN queryCaught(s2) ELSE s2)

\* fetch rejects, the status is not OK, or the body is no JSON
queryFailed(s) == querySettled(queryCaught(s))

\* executeAssistActions for well-typed actions: those that are not listed
\* here touch the page alone
RECURSIVE executeAssistActions(_, _)
executeAssistActions(s, actions) ==
    IF actions = <<>> THEN s
    ELSE LET action == Head(actions)
             s1 == CASE action.type = "insert_text" ->
                            [s EXCEPT !.messageInput = action.value]
                      [] action.type = "send_text" -> handleSendMessage(s)
                      [] OTHER -> s
         IN  executeAssistActions(s1, Tail(actions))

\* handleNavAssist after its await; mine: the lookup was issued in the turn
\* that is still open
assistResponded(s, data, mine) ==
    LET s0 == IF mine /\ Truthy(data.message) THEN Note(s, "answer", TRUE) ELSE s
        sm == IF Truthy(data.message)
              THEN [addMessage(s0, data.message, IF mine THEN "assist" ELSE "late")
                       EXCEPT !.lastResponseText = data.message]
              ELSE s0
        s1 == executeAssistActions(sm, data.actions)
    IN  IF data.handled
        THEN LET s2 == clearNavSpeechFallback([s1 EXCEPT !.navSuppressRealtime = TRUE])
                 s3 == IF Truthy(s2.lastResponseText)
                       THEN speakTextResponse(s2, s2.lastResponseText)
                       ELSE s2
                 s4 == [s3 EXCEPT !.lastResponseText = NULL,
                                  !.navAwaitingResponse = FALSE,
                                  !.awaitingRealtimeResponse = FALSE]
             IN  Note(IF mine THEN Note(s4, "handled", TRUE) ELSE s4,
                      "handledAny", TRUE)
        ELSE s1

\* the catch of handleNavAssist: console.error and nothing else
assistFailed(s) == s

onText(s, content) ==
    LET s0 == Note(Note(s, "text", TRUE),
                   "navText", s.turn.navText \/ s.navAwaitingResponse)
    IN  IF s0.navSuppressRealtime /\ s0.navAwaitingResponse THEN s0
        ELSE IF ~isNavigationPayload(content)
        THEN LET s1 == Note(addMessage(s0, content.str, "auto"), "answer", TRUE)
                 s2 == [s1 EXCEPT !.lastResponseText = content.str]
             IN  setNavResponding(scheduleNavSpeechFallback(s2), TRUE)
        ELSE setNavResponding(s0, TRUE)

\* the audio case without its look at awaitingRealtimeResponse: a fault the
\* gate of the assembler must notice
onAudio_unawaited(s, audio, mime_type) ==
    IF s.navSuppressRealtime /\ s.navAwaitingResponse
    THEN clearNavSpeechFallback(s)
    ELSE setNavResponding(bufferAudioChunk(clearNavSpeechFallback(s), audio, mime_type),
                          TRUE)

onAudio(s, audio, mime_type) ==
    LET real == Len(audio) > 0 /\ ~atobThrows(audio) /\ Len(atob(audio)) > 0
        s0   == Note(Note(Note(s, "audio", TRUE),
                          "preempted", s.turn.preempted \/ (s.turn.text /\ ~s.turn.fired)),
                     "answer", s.turn.answer \/ real)
    IN  IF s0.navSuppressRealtime /\ s0.navAwaitingResponse
        THEN clearNavSpeechFallback(s0)
        ELSE IF ~s0.awaitingRealtimeResponse THEN s0
        ELSE LET s1 == bufferAudioChunk(clearNavSpeechFallback(s0), audio, mime_type)
                 s2 == IF real
                       THEN Note(Note([s1 EXCEPT !.frags = IF Watched(s, "clip") /\ ~s.turn.restarted
                                                      THEN Append(@, atob(audio))
                                                      ELSE @],
                                 "buffered",
                                 s.turn.buffered \/ (s.turn.text /\ ~s.turn.fired)),
                                 "tag",
                                 IF s.turn.tag.str = "" THEN mime_type ELSE s.turn.tag)
                       ELSE s1
             IN  setNavResponding(s2, TRUE)

onTranscription(s, content) ==
    handleNavAssist(addMessage(s, content, "user"), content)

onNavigate(s, message, target_route) ==
    LET s1 == IF Truthy(message)
              THEN LET t == Note(addMessage(s, message, "auto"), "answer", TRUE)
                   IN  scheduleNavSpeechFallback([t EXCEPT !.lastResponseText = message])
              ELSE s
        s2 == IF Truthy(target_route) THEN navigateTo(s1, target_route) ELSE s1
    IN  setNavResponding(s2, FALSE)

\* turn_complete without its look at navSuppressRealtime: a fault the
\* discarding of a suppressed turn must notice
onTurnComplete_unsuppressed(s) ==
    LET s0 == clearNavSpeechFallback(s)
        t  == IF Len(s0.pendingAudioChunks) > 0
              THEN finalizeAudioResponse(s0)
              ELSE IF s0.navAwaitingResponse /\ Truthy(s0.lastResponseText)
              THEN speakTextResponse(s0, s0.lastResponseText)
              ELSE s0
    IN  [t EXCEPT !.navSuppressRealtime = FALSE,
                  !.lastResponseText = NULL,
                  !.navAwaitingResponse = FALSE,
                  !.awaitingRealtimeResponse = FALSE]

onTurnComplete(s) ==
    LET s0 == clearNavSpeechFallback(s)
        s1 == IF s0.navSuppressRealtime
              THEN [s0 EXCEPT !.pendingAudioChunks = <<>>,
                              !.navSuppressRealtime = FALSE,
                              !.lastResponseText = NULL,
                              !.navAwaitingResponse = FALSE,
                              !.awaitingRealtimeResponse = FALSE]
              ELSE LET t == IF Len(s0.pendingAudioChunks) > 0
                            THEN finalizeAudioResponse(s0)
                            ELSE IF s0.navAwaitingResponse /\ Truthy(s0.lastResponseText)
                            THEN speakTextResponse(s0, s0.lastResponseText)
                            ELSE s0
                   IN  [t EXCEPT !.lastResponseText = NULL,
                                 !.navAwaitingResponse = FALSE,
                                 !.awaitingRealtimeResponse = FALSE]
    IN  [Note(setNavResponding(s1, FALSE), "phase", "done")
            EXCEPT !.frags = <<>>, !.out.taken = s.frags]

\* an error case that gives the turn up: a fault the frame of an error
\* envelope must notice
onError_endsTurn(s, content) ==
    [addMessage(s, content, "note") EXCEPT !.awaitingRealtimeResponse = FALSE]

onError(s, content) == addMessage(s, content, "note")

\* an inbound envelope; the fields a type does not carry are ignored
Envelope(type, content, audio, mime_type, message, target_route) ==
    [type |-> type, content |-> content, audio |-> audio, mime_type |-> mime_type,
     message |-> message, target_route |-> target_route]

handleLiveMessage(s, message) ==
    CASE message.type = "connected" -> addMessage(s, "Connected to OpenAI Realtime", "note")
      [] message.type = "text" -> onText(s, message.content)
      [] message.type = "audio" -> onAudio(s, message.audio, message.mime_type)
      [] message.type = "transcription" -> onTranscription(s, message.content.str)
      [] message.type = "navigate" -> onNavigate(s, message.message, message.target_route)
      [] message.type = "turn_complete" -> onTurnComplete(s)
      [] message.type = "error" -> onError(s, message.content.str)
      [] OTHER -> s

\* startRecording up to its await
startRecordingBegin(s, mode) ==
    IF s.isRecording THEN s
    ELSE LET s1 == resetAudioPlaybackState(resetNavAssistState(s))
         IN  Note([s1 EXCEPT !.starts = Append(@, mode), !.frags = <<>>],
                  "restarted", TRUE)

\* startRecording's continuation without its reset of the two awaiting flags:
\* a fault the silence of the arbitrator during a recording must notice
startRecordingGranted_keepsFlags(s, mode) ==
    [updateConnectionStatus(
         [s EXCEPT !.mediaRecorder = "running",
                   !.sessions = @ + 1,
                   !.isRecording = TRUE,
                   !.activeRecordingMode = mode],
         "Listening...")
       EXCEPT !.hasShownAudioIndicator = FALSE]

\* startRecording after getUserMedia resolved
startRecordingGranted(s, mode) ==
    [updateConnectionStatus(
         [s EXCEPT !.mediaRecorder = "running",
                   !.sessions = @ + 1,
                   !.isRecording = TRUE,
                   !.activeRecordingMode = mode,
                   !.navAwaitingResponse = FALSE,
                   !.awaitingRealtimeResponse = FALSE],
         "Listening...")
       EXCEPT !.hasShownAudioIndicator = FALSE]

\* startRecording's catch: getUserMedia rejected
startRecordingDenied(s) ==
    addMessage(s, "Could not access microphone. Please check permissions.", "note")

\* processor.onaudioprocess of a running session
\* onaudioprocess without its look at isRecording: a fault the dropping of
\* late capture buffers must notice
onaudioprocess_unflagged(s) ==
    IF s.ws # "OPEN" THEN s
    ELSE [s EXCEPT !.out.sent = Append(@, "audio")]

onaudioprocess(s) ==
    IF ~s.isRecording \/ s.ws # "OPEN" THEN s
    ELSE [s EXCEPT !.out.sent = Append(@, "audio")]

\* stopRecording releases the session that mediaRecorder holds, and no other
releaseRecorder(s) ==
    IF s.mediaRecorder = "running"
    THEN [s EXCEPT !.mediaRecorder = "stopped", !.sessions = @ - 1]
    ELSE s

\* stopRecording without awaitingRealtimeResponse = true: a fault the pairing
\* of the two awaiting flags must notice
stopRecording_unawaited(s) ==
    LET s1 == releaseRecorder([s EXCEPT !.isRecording = FALSE])
        s2 == IF s1.ws = "OPEN"
              THEN [s1 EXCEPT !.out.sent = Append(@, "audio_stream_end")]
              ELSE s1
        s3 == IF s2.activeRecordingMode = "nav"
              THEN [s2 EXCEPT !.navAwaitingResponse = TRUE]
              ELSE s2
    IN  updateConnectionStatus([s3 EXCEPT !.activeRecordingMode = NULL], "Processing...")

stopRecording(s) ==
    LET s1 == releaseRecorder([s EXCEPT !.isRecording = FALSE])
        s2 == IF s1.ws = "OPEN"
              THEN [s1 EXCEPT !.out.sent = Append(@, "audio_stream_end")]
              ELSE s1
        s3 == IF s2.activeRecordingMode = "nav"
              THEN [s2 EXCEPT !.navAwaitingResponse = TRUE]
              ELSE s2
        s4 == [s3 EXCEPT !.awaitingRealtimeResponse = TRUE,
                         !.activeRecordingMode = NULL,
                         !.turn = IF Watched(s, "turn")
                                  THEN [NoTurn EXCEPT !.phase = "open",
                                                      !.nav = (s.activeRecordingMode = "nav")]
                                  ELSE NoTurn,
                         !.frags = <<>>,
                         !.lookups = [cur |-> 0, old |-> s.lookups.cur + s.lookups.old]]
    IN  updateConnectionStatus(s4, "Processing...")

toggleRecording(s, mode) ==
    IF s.isRecording THEN stopRecording(s) ELSE startRecordingBegin(s, mode)

\* connectToLiveAPI that sets a second timer when it connects: a fault the
\* count of reconnect attempts must notice
connectToLiveAPI_rearms(s) ==
    LET s1 == updateConnectionStatus(s, "Connecting...")
    IN  IF WebSocketThrows(LIVE_API_WS_URL(s.scope.origin))
        THEN updateConnectionStatus(s1, "Failed")
        ELSE [s1 EXCEPT !.ws = "CONNECTING", !.reconnects = @ + 1]

connectToLiveAPI(s) ==
    LET s1 == updateConnectionStatus(s, "Connecting...")
    IN  IF WebSocketThrows(LIVE_API_WS_URL(s.scope.origin))
        THEN updateConnectionStatus(s1, "Failed")
        ELSE [s1 EXCEPT !.ws = "CONNECTING"]

(***************************************************************************)
(* The tasks of the dashboard client.                                      *)
(***************************************************************************)
NoContent == Content("", FALSE, FALSE, FALSE, FALSE, FALSE)

Transcripts == {"", "open players"}

AssistReplies ==
    {[message |-> m, handled |-> h, actions |-> <<>>] :
        m \in AssistMessages, h \in BOOLEAN}

InputTexts == {"", " ", " hi "}

AssistActions ==
    {<<[type |-> "send_text", value |-> NULL]>>,
     <<[type |-> "insert_text", value |-> "hi"], [type |-> "send_text", value |-> NULL]>>,
     <<[type |-> "open_chat", value |-> NULL]>>}

QueryReplies ==
    {[content |-> "ok", session_id |-> i, target_route |-> r] :
        i \in {NULL, "s1"}, r \in {NULL, "#reports", NotAString}}

Scope(watch, texts, navMessages, audios, mimes, maxChunks, maxClips) ==
    [watch |-> watch, texts |-> texts, navMessages |-> navMessages,
     audios |-> audios, mimes |-> mimes,
     maxChunks |-> maxChunks, maxClips |-> maxClips,
     maxStarts |-> MaxStarts, origin |-> HttpOrigin]

\* the state once DOMContentLoaded has run
Loaded(sc) ==
    /\ scope = sc
    /\ ws = IF WebSocketThrows(LIVE_API_WS_URL(sc.origin)) THEN NULL ELSE "CONNECTING"
    /\ reconnects = 0
    /\ status = IF "status" \notin sc.watch THEN "unobserved"
                ELSE IF WebSocketThrows(LIVE_API_WS_URL(sc.origin)) THEN "Failed"
                ELSE "Connecting..."
    /\ isRecording = FALSE
    /\ activeRecordingMode = NULL
    /\ starts = <<>>
    /\ mediaRecorder = NULL
    /\ sessions = 0
    /\ navAwaitingResponse = FALSE
    /\ navSuppressRealtime = FALSE
    /\ awaitingRealtimeResponse = FALSE
    /\ lastResponseText = NULL
    /\ navResponseTimeout = FALSE
    /\ pendingAudioChunks = <<>>
    /\ pendingAudioMimeType = NoMime
    /\ audioQueue = <<>>
    /\ isPlayingAudio = FALSE
    /\ activeAudio = 0
    /\ hasShownAudioIndicator = FALSE
    /\ clips = <<>>
    /\ lookups = [cur |-> 0, old |-> 0]
    /\ utterances = 0
    /\ messageInput = ""
    /\ isProcessing = FALSE
    /\ sendDisabled = FALSE
    /\ sessionId = NULL
    /\ queries = 0
    /\ turn = NoTurn
    /\ frags = <<>>
    /\ out = Quiet

\* the assembly of clips in full, one kind of text
AudioScope(watch) ==
    Scope(watch \cup {"turn", "phase"}, {TxtHello}, {""}, AudioPayloads, MimeTags,
          MaxChunks, TurnClips)

\* the playback queue in full, one kind of text and of audio fragment
QueueScope(watch) ==
    Scope(watch, {TxtHello}, {""}, {B64One}, {NoMime}, TurnChunks, MaxClips)

\* the arbitration of a turn in full, one kind of audio fragment
TurnScope(watch) ==
    Scope(watch \cup {"turn", "phase"}, TextContents, NavMessages, {B64One, B64Empty},
          {NoMime}, TurnChunks, TurnClips)

Init == Loaded(QueueScope({"status"}))

\* liveWebSocket.onopen
WsOpen ==
    /\ ws = "CONNECTING"
    /\ Becomes(updateConnectionStatus([Task EXCEPT !.ws = "OPEN"], "Ready"))

\* liveWebSocket.onerror
WsError ==
    /\ ws \in {"CONNECTING", "OPEN"}
    /\ Becomes(updateConnectionStatus(Task, "Error"))

\* liveWebSocket.onclose
WsClose ==
    /\ ws \in {"CONNECTING", "OPEN"}
    /\ Becomes([updateConnectionStatus(Task, "Disconnected")
                   EXCEPT !.ws = "CLOSED", !.reconnects = @ + 1])

\* the timer set by onclose
Reconnect ==
    /\ reconnects > 0
    /\ Becomes(connectToLiveAPI([Task EXCEPT !.reconnects = @ - 1]))

Receive(message) ==
    /\ ws = "OPEN"
    /\ Becomes(handleLiveMessage(Observe(Task, message), message))

ReceiveText == \E c \in scope.texts :
    Receive(Envelope("text", c, <<>>, NoMime, "", ""))

ReceiveAudio == \E a \in scope.audios, m \in scope.mimes :
    /\ Len(pendingAudioChunks) < scope.maxChunks
    /\ Len(clips) < scope.maxClips
    /\ Receive(Envelope("audio", NoContent, a, m, "", ""))

ReceiveTranscription == \E t \in Transcripts :
    /\ lookups.cur + lookups.old < MaxLookups
    /\ Receive(Envelope("transcription", [NoContent EXCEPT !.str = t], <<>>, NoMime, "", ""))

ReceiveNavigate == \E m \in scope.navMessages, r \in {"", "#players"} :
    Receive(Envelope("navigate", NoContent, <<>>, NoMime, m, r))

ReceiveTurnComplete ==
    Receive(Envelope("turn_complete", NoContent, <<>>, NoMime, "", ""))

ReceiveError ==
    Receive(Envelope("error", [NoContent EXCEPT !.str = "Error: boom"], <<>>, NoMime, "", ""))

ReceiveOther == \E t \in {"connected", "setup_complete", "tool_call", "usage"} :
    Receive(Envelope(t, NoContent, <<>>, NoMime, "", ""))

\* a click on micButton ('chat') or navMicButton ('nav')
ToggleRecording == \E mode \in Modes :
    /\ \/ isRecording
       \/ Len(starts) < scope.maxStarts /\ sessions + Len(starts) < MaxSessions
    /\ Becomes(toggleRecording(Task, mode))

Without(seq, i) == SubSeq(seq, 1, i - 1) \o SubSeq(seq, i + 1, Len(seq))

MicGranted == \E i \in 1..Len(starts) :
    Becomes(startRecordingGranted([Task EXCEPT !.starts = Without(@, i)],
                                  starts[i]))

MicDenied == \E i \in 1..Len(starts) :
    Becomes(startRecordingDenied([Task EXCEPT !.starts = Without(@, i)]))

\* the processor of a running session delivers a capture buffer
CaptureBuffer ==
    /\ sessions > 0
    /\ Becomes(onaudioprocess(Observe(Task, [type |-> "buffer"])))

\* the 2500 ms timer of scheduleNavSpeechFallback runs out
FallbackTimerFires ==
    /\ navResponseTimeout
    /\ LET s0 == Observe([Task EXCEPT !.navResponseTimeout = FALSE], [type |-> "timer"])
           s1 == Note(Note(s0, "fired", TRUE),
                      "firedFirst", s0.turn.firedFirst \/ (s0.turn.navText /\ ~s0.turn.audio))
       IN  Becomes(navSpeechFallbackFired(s1))

\* the assist endpoint answers 200 with a JSON body
AssistResponds == \E tag \in {"cur", "old"}, data \in AssistReplies :
    /\ lookups[tag] > 0
    /\ Becomes(assistResponded(Observe([Task EXCEPT !.lookups[tag] = @ - 1],
                                       [type |-> "assist", data |-> data, tag |-> tag]),
                               data, tag = "cur"))

\* fetch rejects, the body is no JSON, or the status is not OK: the catch
\* logs to the console
AssistFails == \E tag \in {"cur", "old"} :
    /\ lookups[tag] > 0
    /\ Becomes(assistFailed(Observe([Task EXCEPT !.lookups[tag] = @ - 1],
                                    [type |-> "assist_error"])))

\* 'ended' or 'error' is dispatched at an element: one that is playing, or one
\* that resetAudioPlaybackState paused while the event was already due
AudioTerminates == \E u \in 1..Len(clips) :
    /\ clips[u] \in {"playing", "paused"}
    /\ Becomes(audioTerminated(Task, u))

\* utterance.onend / utterance.onerror
UtteranceEnds ==
    /\ utterances > 0
    /\ Becomes(updateConnectionStatus([Task EXCEPT !.utterances = @ - 1], "Ready"))

Next ==
    \/ WsOpen
    \/ WsError
    \/ WsClose
    \/ Reconnect
    \/ ReceiveText
    \/ ReceiveAudio
    \/ ReceiveTranscription
    \/ ReceiveNavigate
    \/ ReceiveTurnComplete
    \/ ReceiveError
    \/ ReceiveOther
    \/ ToggleRecording
    \/ MicGranted
    \/ MicDenied
    \/ CaptureBuffer
    \/ FallbackTimerFires
    \/ AssistResponds
    \/ AssistFails
    \/ AudioTerminates
    \/ UtteranceEnds

vars == progVars

\* the user edits the chat input
TypeMessage == \E value \in InputTexts :
    /\ value # messageInput
    /\ Becomes([Task EXCEPT !.messageInput = value])

\* a click on sendButton, or Enter in messageInput
SendMessage ==
    Becomes(handleSendMessage(Observe(Task, [type |-> "send"])))

\* the query endpoint answers 200 with a JSON body
QueryResponds == \E data \in QueryReplies :
    /\ queries > 0
    /\ Becomes(queryResponded(Observe([Task EXCEPT !.queries = @ - 1],
                                      [type |-> "query"]), data))

QueryFails ==
    /\ queries > 0
    /\ Becomes(queryFailed(Observe([Task EXCEPT !.queries = @ - 1],
                                   [type |-> "query_error"])))

\* the assist endpoint answers with actions for the page
AssistActs == \E tag \in {"cur", "old"}, actions \in AssistActions :
    /\ lookups[tag] > 0
    /\ LET data == [message |-> "", handled |-> FALSE, actions |-> actions]
       IN  Becomes(assistResponded(Observe([Task EXCEPT !.lookups[tag] = @ - 1],
                                           [type |-> "assist", data |-> data, tag |-> tag]),
                                   data, tag = "cur"))

NextChat ==
    \/ Next
    \/ TypeMessage
    \/ SendMessage
    \/ QueryResponds
    \/ QueryFails
    \/ AssistActs

\* the chat input next to one kind of turn
SpecChat ==
    /\ Loaded(Scope({"chat"}, {TxtHello}, {""}, {B64One}, {NoMime}, TurnChunks, TurnClips))
    /\ [][NextChat]_vars

\* the browser refuses the autoplay of an element that was just started
PlayRejected == \E u \in 1..Len(clips) :
    /\ clips[u] = "playing"
    /\ Becomes(playRejected(Task, u))

NextPlay ==
    \/ Next
    \/ PlayRejected

\* the playback queue in a browser that may refuse autoplay
SpecPlay == Loaded(QueueScope({})) /\ [][NextPlay]_vars

\* 'ended' or 'error' is dispatched at the element that plays clip u
Reports(u) ==
    /\ u \in 1..Len(clips)
    /\ clips[u] = "playing"
    /\ Becomes(audioTerminated(Task, u))

\* every clip that plays reports an end or a failure in the end; a clip whose
\* autoplay was refused has reported its failure through the promise of play()
EveryClipReports == \A u \in 1..MaxClips : WF_vars(Reports(u))

SpecDrain == Loaded(QueueScope({})) /\ [][Next]_vars /\ EveryClipReports

SpecPlayDrain == Loaded(QueueScope({})) /\ [][NextPlay]_vars /\ EveryClipReports

\* the status label over one kind of turn; what the page itself has pending
\* happens in the end: the fallback timer fires, a playing clip and an
\* utterance report their end
SpecStatus ==
    /\ Loaded(Scope({"status", "turn", "phase"}, {TxtHello}, {""}, {B64One}, {NoMime},
                    TurnChunks, TurnClips))
    /\ [][Next]_vars
    /\ EveryClipReports
    /\ WF_vars(UtteranceEnds)
    /\ WF_vars(FallbackTimerFires)

\* the playback queue
Spec == Init /\ [][Next]_vars
\* the assembly of a turn's fragments into a clip
InitClip == Loaded(AudioScope({"clip", "restarted"}))
SpecClip == InitClip /\ [][Next]_vars

\* the rate tags of a turn's fragments
InitRate ==
    Loaded(Scope({"turn", "phase", "clip", "tag", "restarted"}, {TxtHello}, {""},
                 {B64One}, {NoMime, Mime16k, Mime48k}, MaxChunks, TurnClips))
SpecRate == InitRate /\ [][Next]_vars

\* what a turn shows
InitShown == Loaded(TurnScope({"autoShown", "assistShown", "handled", "restarted"}))
SpecShown == InitShown /\ [][Next]_vars

\* what a turn lets the user hear
InitHeard == Loaded(TurnScope({"synth", "enq", "answer", "restarted"}))
SpecHeard == InitHeard /\ [][Next]_vars

\* the handling of one envelope, seen from the state it arrived in
InitStep ==
    Loaded(Scope({"step"},
                 TextContents \cup {NoContent,
                                     Content("{\"a\":1}", TRUE, TRUE, TRUE, FALSE, FALSE)},
                 NavMessages, {B64One, B64Empty, B64Bad},
                 {NoMime}, TurnChunks, TurnClips))
SpecStep == InitStep /\ [][Next]_vars

\* the fallback timer against the text it was armed with
InitFire == Loaded(TurnScope({"step", "armed"}))
SpecFire == InitFire /\ [][Next]_vars

\* the fallback timer against the turn's audio
InitTimer ==
    Loaded(TurnScope({"synth", "text", "navText", "audio", "fired", "firedFirst",
                      "preempted", "buffered", "handledAny", "restarted"}))
SpecTimer == InitTimer /\ [][Next]_vars

(***************************************************************************)
(* The stand-alone live chat page (live-chat.js).  It keeps its state in   *)
(* variables of the same names; status is statusMessage.textContent, and   *)
(* a clip whose metadata was found invalid is "skipped": its element       *)
(* stays alive and still owes its terminal event.                          *)
(***************************************************************************)
live_statusMessage(s, text) ==
    IF Watched(s, "status") THEN [s EXCEPT !.status = text] ELSE s

live_playNextAudio(s) ==
    IF Len(s.audioQueue) = 0
    THEN live_statusMessage([s EXCEPT !.isPlayingAudio = FALSE,
                                      !.hasShownAudioIndicator = FALSE],
                            "Ready! Click to start recording")
    ELSE LET audioUrl == Head(s.audioQueue)
         IN  live_statusMessage([s EXCEPT !.isPlayingAudio = TRUE,
                                          !.audioQueue = Tail(@),
                                          !.clips[audioUrl] = "playing"],
                                "Playing response...")

\* audio.onended and audio.onerror
live_audioTerminated(s, audioUrl) ==
    live_playNextAudio([s EXCEPT !.clips[audioUrl] = "released"])

\* audio.onloadedmetadata reporting a duration of 0 or NaN
live_metadataInvalid(s, audioUrl) ==
    live_playNextAudio([s EXCEPT !.clips[audioUrl] = "skipped"])

live_finalizeAudioResponse(s) ==
    IF Len(s.pendingAudioChunks) = 0 THEN s
    ELSE LET pcmBytes   == concatUint8Arrays(s.pendingAudioChunks)
             tagged     == getSampleRateFromMime(s.pendingAudioMimeType)
             sampleRate == IF NumIsZero(tagged) THEN DefaultRate ELSE tagged
             wavBlob    == createWavBlob(pcmBytes, sampleRate)
             audioUrl   == Len(s.clips) + 1
             s1 == [s EXCEPT !.clips = Append(@, "queued"),
                             !.audioQueue = Append(@, audioUrl),
                             !.pendingAudioChunks = <<>>,
                             !.pendingAudioMimeType = NoMime,
                             !.out.clip = IF Watched(s, "clip") THEN wavBlob ELSE <<>>,
                             !.hasShownAudioIndicator = TRUE]
         IN  IF ~s1.isPlayingAudio THEN live_playNextAudio(s1) ELSE s1

handleServerMessage(s, message) ==
    CASE message.type = "audio" ->
             bufferAudioChunk(s, message.audio, message.mime_type)
      [] message.type = "turn_complete" ->
             live_finalizeAudioResponse(live_statusMessage(s, "Response complete"))
      [] OTHER -> s

live_startRecordingBegin(s) == [s EXCEPT !.starts = Append(@, "chat")]

live_startRecordingGranted(s) ==
    [live_statusMessage([s EXCEPT !.mediaRecorder = "running",
                                  !.sessions = @ + 1,
                                  !.isRecording = TRUE],
                        "Recording... Click to stop")
        EXCEPT !.hasShownAudioIndicator = FALSE]

\* processor.onaudioprocess of a running session
live_onaudioprocess(s) ==
    IF ~s.isRecording THEN s
    ELSE IF s.ws = "OPEN" THEN [s EXCEPT !.out.sent = Append(@, "audio")]
    ELSE s

live_startRecordingDenied(s) == live_statusMessage(s, "Failed to access microphone")

live_stopRecording(s) ==
    LET s1 == releaseRecorder([s EXCEPT !.isRecording = FALSE])
        s2 == IF s1.ws = "OPEN"
              THEN [s1 EXCEPT !.out.sent = Append(@, "audio_stream_end")]
              ELSE s1
    IN  live_statusMessage(s2, "Processing...")

live_toggleRecording(s) ==
    IF s.isRecording THEN live_stopRecording(s) ELSE live_startRecordingBegin(s)

\* sendTextMessage without its look at the channel: a fault the silence of
\* a channel that is not open must notice
live_sendTextMessage_unguarded(s, message) ==
    IF ~Truthy(message) THEN s
    ELSE live_statusMessage([s EXCEPT !.out.sent = Append(@, "text")],
                            "Waiting for response...")

live_sendTextMessage(s, message) ==
    IF ~Truthy(message) \/ s.ws # "OPEN" THEN s
    ELSE live_statusMessage([s EXCEPT !.out.sent = Append(@, "text")],
                            "Waiting for response...")

live_connectToLiveAPI(s) ==
    IF WebSocketThrows(LIVE_API_WS_URL(s.scope.origin)) THEN s
    ELSE [s EXCEPT !.ws = "CONNECTING"]

\* the live chat page once DOMContentLoaded has run
InitLive ==
    /\ Loaded(QueueScope({"status"}))

\* websocket.onopen
LiveOpen ==
    /\ ws = "CONNECTING"
    /\ Becomes(live_statusMessage([Task EXCEPT !.ws = "OPEN"],
                                  "Ready! Click to start recording"))

\* websocket.onerror
LiveError ==
    /\ ws \in {"CONNECTING", "OPEN"}
    /\ Becomes(live_statusMessage(Task, "Connection error"))

\* websocket.onclose
LiveClose ==
    /\ ws \in {"CONNECTING", "OPEN"}
    /\ Becomes([live_statusMessage(Task, "Disconnected. Reconnecting...")
                   EXCEPT !.ws = "CLOSED", !.reconnects = @ + 1])

\* the timer set by onclose
LiveReconnect ==
    /\ reconnects > 0
    /\ Becomes(live_connectToLiveAPI([Task EXCEPT !.reconnects = @ - 1]))

LiveReceive(message) ==
    /\ ws = "OPEN"
    /\ Becomes(handleServerMessage(Task, message))

LiveReceiveAudio == \E a \in scope.audios, m \in scope.mimes :
    /\ Len(pendingAudioChunks) < scope.maxChunks
    /\ Len(clips) < scope.maxClips
    /\ LiveReceive(Envelope("audio", NoContent, a, m, "", ""))

LiveReceiveTurnComplete ==
    LiveReceive(Envelope("turn_complete", NoContent, <<>>, NoMime, "", ""))

LiveReceiveOther ==
    \E t \in {"connected", "setup_complete", "text", "error", "tool_call", "transcription"} :
        LiveReceive(Envelope(t, NoContent, <<>>, NoMime, "", ""))

\* a click on recordButton
LiveToggleRecording ==
    /\ \/ isRecording
       \/ Len(starts) < scope.maxStarts /\ sessions + Len(starts) < MaxSessions
    /\ Becomes(live_toggleRecording(Task))

LiveMicGranted == \E i \in 1..Len(starts) :
    Becomes(live_startRecordingGranted([Task EXCEPT !.starts = Without(@, i)]))

LiveMicDenied == \E i \in 1..Len(starts) :
    Becomes(live_startRecordingDenied([Task EXCEPT !.starts = Without(@, i)]))

LiveCaptureBuffer ==
    /\ sessions > 0
    /\ Becomes(live_onaudioprocess(Task))

\* a click on sendTextBtn, or Enter in textInput
LiveSendText == \E message \in {"", "hi"} :
    Becomes(live_sendTextMessage(Task, message))

LiveMetadataInvalid == \E u \in 1..Len(clips) :
    /\ clips[u] = "playing"
    /\ Becomes(live_metadataInvalid(Task, u))

LiveAudioTerminates == \E u \in 1..Len(clips) :
    /\ clips[u] \in {"playing", "skipped"}
    /\ Becomes(live_audioTerminated(Task, u))

NextLive ==
    \/ LiveOpen
    \/ LiveError
    \/ LiveClose
    \/ LiveReconnect
    \/ LiveReceiveAudio
    \/ LiveReceiveTurnComplete
    \/ LiveReceiveOther
    \/ LiveToggleRecording
    \/ LiveMicGranted
    \/ LiveMicDenied
    \/ LiveCaptureBuffer
    \/ LiveSendText
    \/ LiveMetadataInvalid
    \/ LiveAudioTerminates

SpecLive == InitLive /\ [][NextLive]_vars

(***************************************************************************)
(* The turn contract.                                                      *)
(***************************************************************************)
\* C1 (as claimed): in a nav-targeted turn whose assist lookup answered
\* handled = true before turn_complete, autonomous content (a text or
\* navigate message) and the lookup's message are never both shown.  The
\* turn is read in the code's favour: one in which the user has not started
\* another recording.
C1_Exclusive ==
    (turn.nav /\ turn.handled /\ ~turn.restarted)
        => ~(turn.autoShown /\ turn.assistShown)

\* C2 (as claimed): within one nav-targeted turn speech synthesis and the
\* enqueueing of an assembled clip never both occur, and synthesis occurs at
\* most once (again in a turn the user did not interrupt by recording anew).
C2_NeverBoth == (turn.nav /\ ~turn.restarted) => turn.synth + turn.enq <= 1

\* C3 (as claimed): once the turn_complete of a nav-targeted turn in which an
\* answer was received has been processed, speech has been synthesised or a
\* clip has been enqueued in that turn (the user not having recorded anew;
\* an assist response counts as an answer only when it carries a message).
C3_NeverNeither ==
    (turn.nav /\ turn.phase = "done" /\ turn.answer /\ ~turn.restarted)
        => turn.synth + turn.enq >= 1

\* C4 (as claimed): when the fallback timer fires after a text envelope that
\* was received while navAwaitingResponse was true, before any audio envelope
\* of the turn, and no handled = true response arrives in the turn, the text
\* is synthesised exactly once in the turn (a turn the user did not
\* interrupt by recording anew).
C4_TimerRace ==
    (turn.firedFirst /\ ~turn.handledAny /\ ~turn.restarted) => turn.synth = 1

Playing == {u \in 1..Len(clips) : clips[u] = "playing"}

Started == {u \in 1..Len(clips) : clips[u] \in {"playing", "paused", "released"}}

\* C6 (as claimed): at most one clip has been started and is still playing.
C6_OneAtATime == Cardinality(Playing) <= 1

\* C7 (as claimed): once a clip has been started, no clip enqueued before it
\* is still waiting in the queue (FIFO) or still playing (the earlier clip
\* finished before the later one started).
C7_QueueOrdering ==
    \A u, v \in 1..Len(clips) :
        (u < v /\ v \in Started) => clips[u] \notin {"queued", "playing"}

\* what a reader of the container finds: a little-endian 32 bit field, and
\* the bytes behind the 44 byte header
getUint32(bytes, offset) ==
    Num(0, bytes[offset + 3] + 256 * bytes[offset + 4],
           bytes[offset + 1] + 256 * bytes[offset + 2])

getUint16(bytes, offset) == bytes[offset + 1] + 256 * bytes[offset + 2]

Payload(wav) == SubSeq(wav, 45, Len(wav))

RECURSIVE Joined(_)
Joined(parts) ==
    IF parts = <<>> THEN <<>> ELSE Head(parts) \o Joined(Tail(parts))

RECURSIVE TotalLen(_)
TotalLen(parts) ==
    IF parts = <<>> THEN 0 ELSE Len(Head(parts)) + TotalLen(Tail(parts))

\* C8 (as claimed): the clip a turn_complete assembles carries exactly the
\* fragments accepted in that turn (the turn that began at the last
\* stopRecording and was not interrupted by a new recording), in arrival
\* order, and its header declares their total length as the data size.
C8_FragmentConservation ==
    (out.clip # <<>> /\ ~turn.restarted) =>
        /\ Payload(out.clip) = Joined(out.taken)
        /\ Len(out.clip) = 44 + TotalLen(out.taken)
        /\ getUint32(out.clip, 40) = NumOf(TotalLen(out.taken))

(***************************************************************************)
(* The container writer on its own: fragment lists and declared rates are  *)
(* drawn by the initial state, one step builds the container.              *)
(***************************************************************************)
PcmBytes == {0, 255}

Fragments == UNION {[1..n -> PcmBytes] : n \in 1..MaxFragLen}

FragmentLists == UNION {[1..k -> Fragments] : k \in 1..MaxChunks}

\* rate=16000, no rate (24000 applies), rate=96000, rate=2147483648,
\* rate=4294967296 and rate=4294991296
RateTags ==
    {Mime16k, MimePcm,
     Mime("audio/pcm;rate=96000", TRUE, NumOf(96000)),
     Mime("audio/pcm;rate=2147483648", TRUE, Num(0, 32768, 0)),
     Mime("audio/pcm;rate=4294967296", TRUE, Num(1, 0, 0)),
     Mime("audio/pcm;rate=4294991296", TRUE, Num(1, 0, 24000))}

\* the rate finalizeAudioResponse hands to createWavBlob
RateUsed(mimeType) ==
    LET tagged == getSampleRateFromMime(mimeType)
    IN  IF NumIsZero(tagged) THEN DefaultRate ELSE tagged

InitWav ==
    /\ scope = QueueScope({"clip"})
    /\ ws = "OPEN"
    /\ reconnects = 0
    /\ status = "unobserved"
    /\ isRecording = FALSE
    /\ activeRecordingMode = NULL
    /\ starts = <<>>
    /\ mediaRecorder = NULL
    /\ sessions = 0
    /\ navAwaitingResponse = FALSE
    /\ navSuppressRealtime = FALSE
    /\ awaitingRealtimeResponse = TRUE
    /\ lastResponseText = NULL
    /\ navResponseTimeout = FALSE
    /\ pendingAudioChunks \in FragmentLists
    /\ pendingAudioMimeType \in RateTags
    /\ audioQueue = <<>>
    /\ isPlayingAudio = FALSE
    /\ activeAudio = 0
    /\ hasShownAudioIndicator = FALSE
    /\ clips = <<>>
    /\ lookups = [cur |-> 0, old |-> 0]
    /\ utterances = 0
    /\ messageInput = ""
    /\ isProcessing = FALSE
    /\ sendDisabled = FALSE
    /\ sessionId = NULL
    /\ queries = 0
    /\ turn = NoTurn
    /\ frags = <<>>
    /\ out = Quiet

\* concatUint8Arrays, getSampleRateFromMime and createWavBlob as
\* finalizeAudioResponse chains them
WavBuild ==
    /\ out.clip = <<>>
    /\ Becomes([Task EXCEPT !.out.clip =
                    createWavBlob(concatUint8Arrays(pendingAudioChunks),
                                  RateUsed(pendingAudioMimeType))])

NextWav == WavBuild

SpecWav == InitWav /\ [][NextWav]_vars

\* what a reader of the container recovers: as many bytes behind the header
\* as the data size declares (or as there are), and the declared rate
Decoded(wav) ==
    LET size == getUint32(wav, 40)
        last == IF size.w1 > 0 THEN Len(wav) ELSE Min(Len(wav), 44 + size.w0)
    IN  [pcm  |-> SubSeq(wav, 45, last),
         rate |-> getUint32(wav, 24)]

Original == [pcm  |-> Joined(pendingAudioChunks),
             rate |-> RateUsed(pendingAudioMimeType)]

Observable(s) ==
    [sent |-> s.out.sent, status |-> s.status, isRecording |-> s.isRecording,
     navAwaitingResponse |-> s.navAwaitingResponse,
     navSuppressRealtime |-> s.navSuppressRealtime,
     awaitingRealtimeResponse |-> s.awaitingRealtimeResponse]

\* C10 (as claimed): in every reachable state, stopRecording with no
\* recording active changes nothing that can be observed, and a second
\* stopRecording adds nothing to what the first one did.
C10_IdempotentStop ==
    /\ ~isRecording => Observable(stopRecording(Task)) = Observable(Task)
    /\ Observable(stopRecording(stopRecording(Task))) = Observable(stopRecording(Task))


(***************************************************************************)
(* Recording sessions.                                                     *)
(***************************************************************************)
\* two clicks may both reach the microphone request before either is granted
InitRace ==
    Loaded([Scope({}, {TxtHello}, {""}, {B64One}, {NoMime}, TurnChunks, TurnClips)
               EXCEPT !.maxStarts = RaceStarts])
SpecRace == InitRace /\ [][Next]_vars

\* the same two starts, the capture buffers observed
SpecCapture ==
    /\ Loaded([Scope({"capture"}, {TxtHello}, {""}, {B64One}, {NoMime}, TurnChunks, TurnClips)
                  EXCEPT !.maxStarts = RaceStarts])
    /\ [][Next]_vars

\* C11: at most one recording session, an input stream with the processor
\* that delivers its capture buffers, exists at any time: a start issued while
\* another session is running or still being started creates no second one
C11_OneSession ==
    sessions <= 1


(***************************************************************************)
(* The channel.  Timers run out: the timer that onclose sets is fair.       *)
(***************************************************************************)
InitChannel ==
    \E origin \in Origins :
        Loaded([Scope({"status"}, {TxtHello}, {""}, {B64One}, {NoMime},
                      TurnChunks, TurnClips)
                   EXCEPT !.origin = origin])
SpecChannel == InitChannel /\ [][Next]_vars /\ WF_vars(Reconnect)

\* C12: whenever the channel is neither Connecting nor Open, after a close
\* or after a failed connect and however many went before, a further connect
\* attempt eventually occurs
C12_ReconnectForever ==
    [](ws \notin {"CONNECTING", "OPEN"} => <>(ws = "CONNECTING"))


\* C13: a channel close discards the turn in progress: while the channel is
\* being connected again nothing of that turn is left, neither a buffered
\* fragment nor a pending fallback timer nor the suppression of the turn.
\* (Fragments, the timer and the suppression come from envelopes and lookups
\* of the turn before the close only; the two awaiting flags may be set anew
\* by a recording stopped while the channel is down and are left out.)
C13_CloseDiscardsTurn ==
    ws = "CONNECTING" =>
        /\ pendingAudioChunks = <<>>
        /\ ~navResponseTimeout
        /\ ~navSuppressRealtime


\* C14: no outbound envelope (audio, audio_stream_end, text) is transmitted
\* while the channel is not Open: a capture buffer, a stop or a text
\* submission while it is Connecting or Closed sends nothing
C14_SilentUnlessOpen ==
    out.sent # <<>> => ws = "OPEN"

\* a recording was stopped while the channel was down, and nothing was sent
C14_StoppedWhileDown ==
    /\ ws \in {"CONNECTING", "CLOSED"}
    /\ status = "Processing..."
    /\ out.sent = <<>>


(***************************************************************************)
(* The handling of one envelope.                                           *)
(***************************************************************************)
\* the task that led to this state handled an envelope of this type
Handled(type) == out.message # <<>> /\ out.message[1].type = type

\* what the arbitrator held when that envelope arrived
Before == out.before[1]

\* C15: immediately after a turn_complete envelope has been processed the
\* three flags are false, the remembered text is empty and no fallback timer
\* is pending, whatever the state was before
C15_TurnCompleteClears ==
    Handled("turn_complete") =>
        /\ ~awaitingRealtimeResponse
        /\ ~navAwaitingResponse
        /\ ~navSuppressRealtime
        /\ lastResponseText = NULL
        /\ ~navResponseTimeout

\* turn_complete arrived in a nav turn with a text remembered and the timer
\* pending
C15_ClearedWhilePending ==
    /\ Handled("turn_complete")
    /\ Before.awaitingRealtimeResponse
    /\ Before.navAwaitingResponse
    /\ Truthy(Before.lastResponseText)
    /\ Before.navResponseTimeout

\* C16: if navSuppressRealtime is set when turn_complete is processed, the
\* fragments buffered for the turn are discarded unassembled: the buffer is
\* empty, no clip is enqueued and nothing is handed to speech synthesis
C16_SuppressedDiscards ==
    (Handled("turn_complete") /\ Before.navSuppressRealtime) =>
        /\ pendingAudioChunks = <<>>
        /\ Len(clips) = Before.clips
        /\ out.spoken = <<>>

\* a suppressed turn_complete found a fragment in the buffer
C16_SuppressedWithFragment ==
    /\ Handled("turn_complete")
    /\ Before.navSuppressRealtime
    /\ Before.pendingAudioChunks # <<>>

\* C17: when turn_complete is processed and the turn is not suppressed: with
\* a buffered fragment exactly one clip is enqueued and nothing is spoken;
\* with none no clip is enqueued, and the remembered text is spoken if and
\* only if navAwaitingResponse was true and a text was remembered
C17_AnswerAtTurnComplete ==
    (Handled("turn_complete") /\ ~Before.navSuppressRealtime) =>
        IF Before.pendingAudioChunks # <<>>
        THEN /\ Len(clips) = Before.clips + 1
             /\ pendingAudioChunks = <<>>
             /\ out.spoken = <<>>
        ELSE /\ Len(clips) = Before.clips
             /\ out.spoken = IF Before.navAwaitingResponse
                                /\ Truthy(Before.lastResponseText)
                             THEN <<Before.lastResponseText>>
                             ELSE <<>>

\* an unsuppressed turn_complete assembled a clip out of the buffer
C17_ClipAssembled ==
    /\ Handled("turn_complete")
    /\ ~Before.navSuppressRealtime
    /\ Before.pendingAudioChunks # <<>>
    /\ Len(clips) = Before.clips + 1

\* C18: an audio envelope is forwarded to the assembler (a fragment that
\* decodes to bytes is appended to the buffer) if and only if
\* awaitingRealtimeResponse is true and the turn is not claimed
\* (navAwaitingResponse and navSuppressRealtime); a claimed or a forwarded
\* one cancels the fallback timer; one that is not forwarded leaves the
\* buffer as it was
C18_AudioGate ==
    Handled("audio") =>
        LET audio     == out.message[1].audio
            real      == Len(audio) > 0 /\ ~atobThrows(audio) /\ Len(atob(audio)) > 0
            claimed   == Before.navAwaitingResponse /\ Before.navSuppressRealtime
            forwarded == Before.awaitingRealtimeResponse /\ ~claimed
        IN  /\ real =>
                   ((pendingAudioChunks = Append(Before.pendingAudioChunks, atob(audio)))
                        <=> forwarded)
            /\ ~forwarded => pendingAudioChunks = Before.pendingAudioChunks
            /\ (claimed \/ forwarded) => ~navResponseTimeout

\* a fragment was forwarded while the fallback timer was pending
C18_ForwardedOverTimer ==
    /\ Handled("audio")
    /\ Before.navResponseTimeout
    /\ Before.awaitingRealtimeResponse
    /\ pendingAudioChunks # <<>>

\* C19: a text envelope in a turn that is not claimed is shown and remembered
\* as the fallback candidate unless it is a JSON object that parses and has a
\* string page or destination field; content that does not parse is always
\* shown; and the fallback timer is armed by it only if navAwaitingResponse
\* is true and the turn is not suppressed
C19_TextSurfaced ==
    (Handled("text") /\ ~(Before.navSuppressRealtime /\ Before.navAwaitingResponse)) =>
        LET content   == out.message[1].content
            navObject == /\ content.open /\ content.close /\ content.parses
                         /\ (content.page \/ content.destination)
        IN  /\ ~navObject => (out.shown = <<content.str>>
                              /\ lastResponseText = content.str)
            /\ navObject => (out.shown = <<>>
                             /\ lastResponseText = Before.lastResponseText)
            /\ ~content.parses => out.shown = <<content.str>>
            /\ (navResponseTimeout /\ ~Before.navResponseTimeout) =>
                   (Before.navAwaitingResponse /\ ~Before.navSuppressRealtime)

\* a text in braces that does not parse was shown and armed the timer
C19_MalformedShown ==
    /\ Handled("text")
    /\ out.message[1].content.open
    /\ ~out.message[1].content.parses
    /\ out.shown # <<>>
    /\ navResponseTimeout
    /\ ~Before.navResponseTimeout

\* C20: after a navigate envelope has been processed awaitingRealtimeResponse
\* is false, so that audio arriving later in the turn is not buffered
C20_NavigateEndsAwaiting ==
    Handled("navigate") => ~awaitingRealtimeResponse


\* C21: an error envelope, and an envelope of a type that handleLiveMessage
\* has no case for, leave the three flags, the remembered text, the fallback
\* timer, the fragment buffer and the playback queue as they were
C21_ErrorLeavesTurn ==
    (out.message # <<>>
     /\ out.message[1].type \in {"error", "setup_complete", "tool_call", "usage"}) =>
        /\ navAwaitingResponse = Before.navAwaitingResponse
        /\ navSuppressRealtime = Before.navSuppressRealtime
        /\ awaitingRealtimeResponse = Before.awaitingRealtimeResponse
        /\ lastResponseText = Before.lastResponseText
        /\ navResponseTimeout = Before.navResponseTimeout
        /\ pendingAudioChunks = Before.pendingAudioChunks
        /\ audioQueue = Before.audioQueue
        /\ Len(clips) = Before.clips

\* an error envelope arrived in mid-turn: awaiting, a text remembered, the
\* timer pending and a fragment buffered
C21_ErrorInMidTurn ==
    /\ Handled("error")
    /\ out.shown # <<>>
    /\ Before.awaitingRealtimeResponse
    /\ Before.navAwaitingResponse
    /\ Before.navResponseTimeout
    /\ Before.pendingAudioChunks # <<>>


(***************************************************************************)
(* The assist race.                                                        *)
(***************************************************************************)
\* what a response with handled = true leaves: the turn suppressed, no timer
\* pending, the remembered text (the response's message, or else the text
\* remembered before) spoken and forgotten, both awaiting flags false
HandledWins ==
    (Handled("assist") /\ out.message[1].data.handled) =>
        LET message == out.message[1].data.message
        IN  /\ navSuppressRealtime
            /\ ~navResponseTimeout
            /\ out.spoken = IF Truthy(message) THEN <<message>>
                            ELSE IF Truthy(Before.lastResponseText)
                            THEN <<Before.lastResponseText>>
                            ELSE <<>>
            /\ lastResponseText = NULL
            /\ ~navAwaitingResponse
            /\ ~awaitingRealtimeResponse

\* C22 as stated: a lookup is issued for a transcription envelope if and
\* only if navAwaitingResponse is true when it arrives; a response with
\* handled = true suppresses the turn, cancels the timer, speaks the
\* remembered text and clears both awaiting flags
C22_AssistRace ==
    /\ Handled("transcription") =>
           ((lookups.cur = Before.lookups.cur + 1) <=> Before.navAwaitingResponse)
    /\ HandledWins

\* C22 amended: the lookup is issued if and only if navAwaitingResponse is
\* true and the transcript is not empty, and no lookup is issued otherwise;
\* the rest as stated
C22_AssistRaceOnTranscript ==
    /\ Handled("transcription") =>
           IF Before.navAwaitingResponse /\ Truthy(out.message[1].content.str)
           THEN lookups.cur = Before.lookups.cur + 1
           ELSE lookups = Before.lookups
    /\ HandledWins

\* a response with handled = true arrived while the timer was pending, and
\* the remembered text was spoken
C22_HandledOverTimer ==
    /\ Handled("assist")
    /\ out.message[1].data.handled
    /\ Before.navResponseTimeout
    /\ Before.awaitingRealtimeResponse
    /\ out.spoken # <<>>


\* C23: a response of the assist lookup with handled false or absent leaves
\* the three flags and a pending fallback timer as they were, so that the
\* turn's own audio or the timer can still answer
C23_UnhandledLeavesTurn ==
    (Handled("assist") /\ ~out.message[1].data.handled) =>
        /\ navAwaitingResponse = Before.navAwaitingResponse
        /\ navSuppressRealtime = Before.navSuppressRealtime
        /\ awaitingRealtimeResponse = Before.awaitingRealtimeResponse
        /\ navResponseTimeout = Before.navResponseTimeout
        /\ pendingAudioChunks = Before.pendingAudioChunks

\* an unhandled response with a message arrived in a nav turn while the
\* timer was pending
C23_UnhandledOverTimer ==
    /\ Handled("assist")
    /\ ~out.message[1].data.handled
    /\ Truthy(out.message[1].data.message)
    /\ Before.navAwaitingResponse
    /\ Before.awaitingRealtimeResponse
    /\ Before.navResponseTimeout


(***************************************************************************)
(* The rate of a clip.                                                     *)
(***************************************************************************)
\* C24: the sample rate in the header of the clip assembled for a turn is
\* the rate of the first accepted fragment of the turn that carried a rate
\* tag, whatever later fragments carry, and 24000 when none carried one
\* (read in turns that no new recording interrupted)
C24_FirstTagWins ==
    (out.clip # <<>> /\ turn.phase = "done" /\ ~turn.restarted) =>
        getUint32(out.clip, 24) = IF turn.tag.hasRate THEN turn.tag.rate
                                  ELSE DefaultRate


(***************************************************************************)
(* The firing of the fallback timer.                                       *)
(***************************************************************************)
\* C25: when the fallback timer fires, speech is synthesised only if the
\* remembered text is still the text the timer was armed with and no
\* fragment is buffered; then that text is spoken, the remembered text is
\* cleared and navAwaitingResponse becomes false; otherwise nothing is
\* spoken and no state changes
C25_FiresOnArmedText ==
    Handled("timer") =>
        IF out.spoken # <<>>
        THEN /\ Before.lastResponseText = turn.armed
             /\ Before.pendingAudioChunks = <<>>
             /\ out.spoken = <<turn.armed>>
             /\ lastResponseText = NULL
             /\ ~navAwaitingResponse
        ELSE /\ lastResponseText = Before.lastResponseText
             /\ navAwaitingResponse = Before.navAwaitingResponse
             /\ navSuppressRealtime = Before.navSuppressRealtime
             /\ awaitingRealtimeResponse = Before.awaitingRealtimeResponse
             /\ pendingAudioChunks = Before.pendingAudioChunks


(***************************************************************************)
(* Playback that the browser refuses, fails or ends.                       *)
(***************************************************************************)
Blocked == {u \in 1..Len(clips) : clips[u] = "blocked"}

\* C26: a clip whose autoplay was refused remains at the head of the
\* playback queue, and the prompt for a manual interaction is shown at most
\* once
C26_RejectedStaysAtHead ==
    /\ \A u \in Blocked : audioQueue # <<>> /\ Head(audioQueue) = u
    /\ Cardinality(Blocked) <= 1


QueueIdle == audioQueue = <<>> /\ ~isPlayingAudio

\* C27: failures never stall the playback queue: every clip that is enqueued
\* starts playback in the end, or the queue returns to idle with
\* isPlayingAudio false, given that every started clip reports an end or a
\* failure
C27_QueueDrains ==
    \A u \in 1..MaxClips :
        (u <= Len(clips) /\ clips[u] = "queued") ~>
            ((u <= Len(clips) /\ clips[u] = "playing") \/ QueueIdle)


\* handles that no later event releases: the URL was dropped from audioQueue
\* by resetAudioPlaybackState before an element existed for it, or its
\* element was refused and dispatches neither 'ended' nor 'error'
Leaked == {u \in 1..Len(clips) : clips[u] \in {"dropped", "blocked"}}

\* C28: every handle created by finalizeAudioResponse is released exactly
\* once: no handle is left that nothing will release, whatever the sequence
\* of end, error, autoplay-refusal and start-recording events
C28_ReleasedOnce == Leaked = {}


(***************************************************************************)
(* Requests over HTTP.                                                     *)
(***************************************************************************)
\* C30: an assist lookup that failed (the fetch rejected, or the status was
\* not OK) is shown to the user as a message
C30_AssistFailureShown == Handled("assist_error") => out.shown # <<>>


\* C29: at most one query request of the chat input is outstanding: a call
\* of handleSendMessage while isProcessing is true sends no request and
\* changes no state, and isProcessing and the send button's disabled state
\* are false again once the outstanding request has completed, with success
\* or with failure
C29_OneQuery ==
    /\ queries <= 1
    /\ isProcessing = (queries = 1)
    /\ sendDisabled = isProcessing
    /\ (Handled("send") /\ Before.isProcessing) =>
            /\ queries = Before.queries
            /\ messageInput = Before.messageInput
            /\ isProcessing
            /\ sessionId = Before.sessionId
            /\ out.shown = <<>>
    /\ (Handled("query") \/ Handled("query_error")) => ~isProcessing /\ ~sendDisabled

\* a text was sent from the input while a request was outstanding
C29_SendWhileProcessing ==
    /\ Handled("send")
    /\ Before.isProcessing
    /\ trim(Before.messageInput) # ""


(***************************************************************************)
(* Invariants of the recording, the queue, the channel and the status.     *)
(***************************************************************************)
\* C31: a capture buffer delivered while isRecording is false, that is from
\* stopRecording until a later startRecording has completed, is dropped: the
\* task sends no audio envelope, whichever session's node delivered it
C31_LateBufferDropped ==
    (Handled("buffer") /\ ~isRecording) => out.sent = <<>>

\* the node of an earlier session delivered a buffer on an open channel after
\* stopRecording had released the session it knew of
C31_BufferAfterStop ==
    /\ Handled("buffer")
    /\ ~isRecording
    /\ mediaRecorder = "stopped"
    /\ ws = "OPEN"


\* rate * 2, limb by limb
Twice(x) ==
    LET d0 == x.w0 + x.w0
        d1 == x.w1 + x.w1 + (d0 \div Limb)
    IN  Num(x.w2 + x.w2 + (d1 \div Limb), d1 % Limb, d0 % Limb)

\* the fields of the header that createWavBlob derives from its arguments
HeaderDeclares(wav, pcm, rate) ==
    /\ getUint32(wav, 4) = NumOf(36 + Len(pcm))
    /\ getUint16(wav, 22) = 1
    /\ getUint16(wav, 34) = 16
    /\ getUint16(wav, 32) = 2
    /\ getUint32(wav, 28) = Twice(rate)
    /\ getUint32(wav, 40) = NumOf(Len(pcm))
    /\ Len(wav) = 44 + Len(pcm)

C33_LateAssistInert ==
    (Handled("assist") /\ out.message[1].tag = "old" /\ out.message[1].data.handled) =>
        /\ ~navSuppressRealtime
        /\ out.spoken = <<>>
        /\ navAwaitingResponse = Before.navAwaitingResponse
        /\ awaitingRealtimeResponse = Before.awaitingRealtimeResponse


\* C34: in every reachable state navAwaitingResponse implies
\* awaitingRealtimeResponse: a nav answer is never awaited while the audio of
\* that turn would be discarded
C34_NavImpliesAwaiting == navAwaitingResponse => awaitingRealtimeResponse

\* a nav turn with a text remembered and the fallback timer pending
C34_NavTurnArmed ==
    /\ navAwaitingResponse
    /\ awaitingRealtimeResponse
    /\ navResponseTimeout
    /\ lastResponseText # NULL

\* C35: while isRecording is true, navAwaitingResponse and
\* awaitingRealtimeResponse are false, and an audio envelope that arrives
\* then is discarded: the fragment buffer is as it was
C35_SilentWhileRecording ==
    /\ isRecording => ~navAwaitingResponse /\ ~awaitingRealtimeResponse
    /\ (Handled("audio") /\ isRecording) =>
            pendingAudioChunks = Before.pendingAudioChunks

\* an audio envelope with a fragment that decodes arrived during a recording
C35_AudioWhileRecording ==
    /\ Handled("audio")
    /\ isRecording
    /\ out.message[1].audio = B64One

\* C36: between tasks, isPlayingAudio = false implies that audioQueue is
\* empty, after any sequence of finalize, end, error, refusal and reset events
C36_IdleMeansEmpty == ~isPlayingAudio => audioQueue = <<>>

\* the queue is idle after one clip has ended and another was dropped by a
\* reset
C36_IdleAfterEndAndReset ==
    /\ ~isPlayingAudio
    /\ \E u \in 1..Len(clips) : clips[u] = "released"
    /\ \E u \in 1..Len(clips) : clips[u] = "dropped"


\* channels that are connecting or open
Channels == IF ws \in {"CONNECTING", "OPEN"} THEN 1 ELSE 0

\* C37: at most one channel is connecting or open and at most one reconnect
\* timer is pending, and a timer is pending only while the channel it will
\* replace is closed: reconnect attempts never multiply
C37_OneChannelOneTimer ==
    /\ Channels + reconnects <= 1
    /\ reconnects = 1 => ws = "CLOSED"

\* a channel that was open has closed and its one reconnect timer is pending
C37_ClosedAndScheduled ==
    /\ ws = "CLOSED"
    /\ reconnects = 1
    /\ Channels = 0


\* C38: once the turn_complete of a turn has been processed and no clip is
\* playing and no speech is in progress, a status of 'Processing...' set by
\* stopRecording gives way in the end: it does not stay until the next
\* recording
C38_ProcessingEnds ==
    (status = "Processing..." /\ turn.phase = "done"
     /\ ~isPlayingAudio /\ utterances = 0) ~> (status # "Processing...")

=============================================================================
